---- MODULE Spec2Model ----
(***************************************************************************)
(* A model of the Empathy Engine: emotion detection (emotion_detector.py), *)
(* prosody mapping and synthesis dispatch (voice_modulator.py) and the     *)
(* orchestrator (empathy_engine.py).                                       *)
(*                                                                         *)
(* Numbers.  Multipliers are held in thousandths (1.2 is 1200), scores,    *)
(* polarity and subjectivity in hundredths (0.4 is 40), intensity factors  *)
(* in tenths (1.5 is 15).  All the tables of the program are exact in      *)
(* these units.                                                            *)
(***************************************************************************)
EXTENDS Integers, Sequences, FiniteSets, TLC

VARIABLES
    m_emotion,      \* prosody mapper: the emotion argument of generate_speech
    m_intensity,    \* prosody mapper: the intensity argument
    m_out,          \* prosody mapper: <<rate_mod, pitch_mod, volume_mod>>, <<>> before
    d_text,         \* detector: the text argument (a sequence of characters)
    d_polarity,     \* detector: TextBlob's polarity of the cleaned text
    d_subjectivity, \* detector: TextBlob's subjectivity of the cleaned text
    d_use_advanced, \* detector: self.use_advanced
    d_classifier,   \* detector: self.emotion_classifier is not None
    d_model,        \* detector: what self.emotion_classifier(text) does
    d_op,           \* detector: the method that was called, "init" before
    d_result,       \* detector: the dict the method returned
    d_invoked,      \* detector: the strategies the call invoked, in order
    engine_type,    \* modulator: self.engine_type
    default_rate,   \* modulator: self.default_rate, words per minute
    default_volume, \* modulator: self.default_volume, in thousandths
    engine_rate,    \* modulator: the 'rate' property of self.engine
    engine_volume,  \* modulator: the 'volume' property of self.engine
    now,            \* int(time.time())
    files,          \* the paths at which a file exists
    calls,          \* the backend invocations of the last call, in order
    written,        \* per finished call, the paths the call wrote a file to
    op,             \* the method that was called last, "init" before
    ret,            \* what that call did: returned (audio, emotion) or raised,
                    \* and the output_file argument it was given
    ctor,           \* construction: the arguments, the environment, the phase
    voices,         \* modulator: the voices self.engine reports
    voice,          \* modulator: index of the voice set on self.engine, -1 unset
    sv,             \* modulator: the last set_voice call, <<>> before
    g_engine,       \* web: the module-level engine of app.py
    constructions,  \* web: how many times EmpathyEngine(...) has run
    reqs            \* web: per request, where process_text stands

mapVars == <<m_emotion, m_intensity, m_out>>

detVars == <<d_text, d_polarity, d_subjectivity, d_use_advanced, d_classifier,
             d_model, d_op, d_result, d_invoked>>

modVars == <<engine_type, default_rate, default_volume, engine_rate,
             engine_volume, now, files, calls, written, op, ret>>

ctorVars == <<ctor, voices, voice, sv>>

webVars == <<g_engine, constructions, reqs>>

vars == <<m_emotion, m_intensity, m_out,
          d_text, d_polarity, d_subjectivity, d_use_advanced, d_classifier,
          d_model, d_op, d_result, d_invoked,
          engine_type, default_rate, default_volume, engine_rate,
          engine_volume, now, files, calls, written, op, ret,
          ctor, voices, voice, sv, g_engine, constructions, reqs>>

Null == "None"

(***************************************************************************)
(* voice_modulator.py: the tables set by VoiceModulator.__init__           *)
(***************************************************************************)

\* 1.0 in thousandths: the neutral multiplier apply_intensity compares with
One == 1000

emotion_mapping_with_joy ==
    ("happy"     :> <<1200, 1150, 1100>>) @@
    ("joy"       :> <<1200, 1150, 1100>>) @@
    ("excited"   :> <<1300, 1200, 1150>>) @@
    ("sad"       :> << 900,  850,  900>>) @@
    ("angry"     :> <<1100, 1050, 1200>>) @@
    ("fear"      :> <<1150, 1100,  950>>) @@
    ("neutral"   :> <<1000, 1000, 1000>>) @@
    ("surprise"  :> <<1150, 1200, 1150>>) @@
    ("positive"  :> <<1100, 1100, 1050>>) @@
    ("negative"  :> << 950,  950,  950>>) @@
    ("concerned" :> << 950,  950, 1050>>)

emotion_mapping ==
    ("happy"     :> <<1200, 1150, 1100>>) @@
    ("excited"   :> <<1300, 1200, 1150>>) @@
    ("sad"       :> << 900,  850,  900>>) @@
    ("angry"     :> <<1100, 1050, 1200>>) @@
    ("fear"      :> <<1150, 1100,  950>>) @@
    ("neutral"   :> <<1000, 1000, 1000>>) @@
    ("surprise"  :> <<1150, 1200, 1150>>) @@
    ("positive"  :> <<1100, 1100, 1050>>) @@
    ("negative"  :> << 950,  950,  950>>) @@
    ("concerned" :> << 950,  950, 1050>>)

\* factors in tenths
intensity_mapping ==
    ("low" :> 5) @@ ("medium" :> 10) @@ ("high" :> 15)

\* str.lower() on the strings the model passes through it
lower(s) ==
    CASE s = "HAPPY" -> "happy"
      [] s = "Sad"   -> "sad"
      [] s = "HIGH"  -> "high"
      [] s = "Low"   -> "low"
      [] s = "Male"  -> "male"
      [] OTHER       -> s

\* dict.get(key, default)
dict_get(d, k, default) == IF k \in DOMAIN d THEN d[k] ELSE default

apply_intensity_signflip(base_mod, intensity_factor) ==
    IF base_mod > One
        THEN One + ((base_mod - One) * intensity_factor) \div 10
        ELSE IF base_mod < One
            THEN One + ((One - base_mod) * intensity_factor) \div 10
            ELSE base_mod

\* generate_speech.apply_intensity, with intensity_factor in tenths
apply_intensity(base_mod, intensity_factor) ==
    IF base_mod > One
        THEN One + ((base_mod - One) * intensity_factor) \div 10
        ELSE IF base_mod < One
            THEN One - ((One - base_mod) * intensity_factor) \div 10
            ELSE base_mod

modifiers_of_default_positive(emotion, intensity) ==
    LET modifiers        == dict_get(emotion_mapping, lower(emotion),
                                     emotion_mapping["positive"])
        intensity_factor == dict_get(intensity_mapping, lower(intensity), 10)
    IN  << apply_intensity(modifiers[1], intensity_factor),
           apply_intensity(modifiers[2], intensity_factor),
           apply_intensity(modifiers[3], intensity_factor) >>

\* generate_speech, lines 309-331: the scaled <<rate, pitch, volume>>
modifiers_of(emotion, intensity) ==
    LET modifiers        == dict_get(emotion_mapping, lower(emotion),
                                     emotion_mapping["neutral"])
        intensity_factor == dict_get(intensity_mapping, lower(intensity), 10)
    IN  << apply_intensity(modifiers[1], intensity_factor),
           apply_intensity(modifiers[2], intensity_factor),
           apply_intensity(modifiers[3], intensity_factor) >>

(***************************************************************************)
(* emotion_detector.py                                                     *)
(***************************************************************************)

\* round(n / d) to the nearest integer.  An exact half goes to the even
\* neighbour, the rule of Python's round(); in the program the operand is a
\* binary float, so that a decimal half rounds by the float nearest to it.
RoundHalfEven(n, d) ==
    LET q == n \div d
        r == n % d
    IN  IF 2 * r < d THEN q
        ELSE IF 2 * r > d THEN q + 1
        ELSE IF q % 2 = 0 THEN q ELSE q + 1

Abs(x) == IF x < 0 THEN -x ELSE x
Min(a, b) == IF a < b THEN a ELSE b
Max(a, b) == IF a > b THEN a ELSE b

\* \s of the re module, on the characters of the model
IsSpace(c) == c \in {" ", "\t", "\n"}

\* str.isupper() of one character
isupper(c) == c \in {"A", "B", "Z"}

RECURSIVE Count(_, _)
\* len(re.findall(c, text)) for a one-character pattern c
Count(text, c) ==
    IF text = <<>> THEN 0
    ELSE (IF Head(text) = c THEN 1 ELSE 0) + Count(Tail(text), c)

RECURSIVE CountUpper(_)
\* sum(1 for c in text if c.isupper())
CountUpper(text) ==
    IF text = <<>> THEN 0
    ELSE (IF isupper(Head(text)) THEN 1 ELSE 0) + CountUpper(Tail(text))

RECURSIVE CollapseSpaces(_)
\* re.sub(r'\s+', ' ', text)
CollapseSpaces(text) ==
    IF text = <<>> THEN <<>>
    ELSE IF IsSpace(Head(text))
        THEN IF Len(text) > 1 /\ IsSpace(text[2])
                THEN CollapseSpaces(Tail(text))
                ELSE <<" ">> \o CollapseSpaces(Tail(text))
        ELSE <<Head(text)>> \o CollapseSpaces(Tail(text))

RECURSIVE LStrip(_)
LStrip(text) ==
    IF text # <<>> /\ IsSpace(Head(text)) THEN LStrip(Tail(text)) ELSE text

RECURSIVE RStrip(_)
RStrip(text) ==
    IF text # <<>> /\ IsSpace(text[Len(text)])
        THEN RStrip(SubSeq(text, 1, Len(text) - 1))
        ELSE text

\* str.strip()
Strip(text) == RStrip(LStrip(text))

RECURSIVE SkipNonSpace(_)
\* the rest of text after its longest prefix of non-whitespace (\S*)
SkipNonSpace(text) ==
    IF text # <<>> /\ ~IsSpace(Head(text)) THEN SkipNonSpace(Tail(text)) ELSE text

RECURSIVE RemoveUrls(_)
\* re.sub(r'http\S+', '', text): leftmost, greedy, non-overlapping matches
RemoveUrls(text) ==
    IF text = <<>> THEN <<>>
    ELSE IF /\ Len(text) >= 5
            /\ SubSeq(text, 1, 4) = <<"h", "t", "t", "p">>
            /\ ~IsSpace(text[5])
        THEN RemoveUrls(SkipNonSpace(SubSeq(text, 5, Len(text))))
        ELSE <<Head(text)>> \o RemoveUrls(Tail(text))

\* EmotionDetector._clean_text
clean_text(text) == RemoveUrls(Strip(CollapseSpaces(text)))

\* _basic_sentiment_analysis, lines 97-112: the label of a polarity
basic_emotion_shifted(polarity) ==
    IF polarity >= 30 THEN "happy"
    ELSE IF polarity <= -30 THEN "sad"
    ELSE IF polarity >= 10 THEN "positive"
    ELSE IF polarity <= -10 THEN "negative"
    ELSE "neutral"

basic_emotion(polarity) ==
    IF polarity > 30 THEN "happy"
    ELSE IF polarity < -30 THEN "sad"
    ELSE IF polarity > 10 THEN "positive"
    ELSE IF polarity < -10 THEN "negative"
    ELSE "neutral"

basic_base_score_uncapped(polarity) ==
    IF polarity > 30 THEN 50 + polarity
    ELSE IF polarity < -30 THEN 50 - polarity
    ELSE IF polarity > 10 THEN 50 + polarity
    ELSE IF polarity < -10 THEN 50 - polarity
    ELSE 100 - Abs(polarity)

\* _basic_sentiment_analysis, lines 97-112: the score before the adjustment
basic_base_score(polarity) ==
    IF polarity > 30 THEN Min(100, 50 + polarity)
    ELSE IF polarity < -30 THEN Min(100, 50 - polarity)
    ELSE IF polarity > 10 THEN 50 + polarity
    ELSE IF polarity < -10 THEN 50 - polarity
    ELSE 100 - Abs(polarity)

\* EmotionDetector._basic_sentiment_analysis; polarity and subjectivity are
\* what TextBlob(text).sentiment gives
basic_sentiment_analysis(polarity, subjectivity) ==
    [ emotion |-> basic_emotion(polarity),
      \* score * (0.5 + subjectivity/2), rounded to 2 decimals
      score   |-> RoundHalfEven(basic_base_score(polarity) * (100 + subjectivity), 200),
      details |-> ("polarity" :> polarity) @@ ("subjectivity" :> subjectivity) ]

RECURSIVE advanced_loop_first_label(_, _, _, _)
advanced_loop_first_label(results, max_score, max_emotion, emotions) ==
    IF results = <<>>
        THEN [ emotion |-> max_emotion,
               score   |-> RoundHalfEven(max_score, 10),
               details |-> emotions ]
        ELSE LET emotion == Head(results)[1]
                 score   == Head(results)[2]
                 emos    == (emotion :> RoundHalfEven(score, 10)) @@ emotions
             IN  IF score > max_score
                    THEN advanced_loop_first_label(Tail(results), score,
                            IF max_emotion = Null THEN emotion ELSE max_emotion, emos)
                    ELSE advanced_loop_first_label(Tail(results), max_score, max_emotion, emos)

RECURSIVE advanced_loop(_, _, _, _)
\* _advanced_emotion_analysis, lines 140-157; scores of the model in
\* thousandths, rounded to hundredths
advanced_loop(results, max_score, max_emotion, emotions) ==
    IF results = <<>>
        THEN [ emotion |-> max_emotion,
               score   |-> RoundHalfEven(max_score, 10),
               details |-> emotions ]
        ELSE LET emotion == Head(results)[1]
                 score   == Head(results)[2]
                 emos    == (emotion :> RoundHalfEven(score, 10)) @@ emotions
             IN  IF score > max_score
                    THEN advanced_loop(Tail(results), score, emotion, emos)
                    ELSE advanced_loop(Tail(results), max_score, max_emotion, emos)

advanced_no_fallback(model, polarity, subjectivity) ==
    IF model.raises
        THEN [ result  |-> [emotion |-> "neutral", score |-> 100, details |-> <<>>],
               invoked |-> <<"advanced">> ]
        ELSE [ result  |-> advanced_loop(model.results, 0, Null, <<>>),
               invoked |-> <<"advanced">> ]

\* EmotionDetector._advanced_emotion_analysis: the result and the
\* strategies that ran.  model.raises: self.emotion_classifier(text) raises
advanced_emotion_analysis(model, polarity, subjectivity) ==
    IF model.raises
        THEN [ result  |-> basic_sentiment_analysis(polarity, subjectivity),
               invoked |-> <<"advanced", "basic">> ]
        ELSE [ result  |-> advanced_loop(model.results, 0, Null, <<>>),
               invoked |-> <<"advanced">> ]

detect_emotion_no_guard(text, use_advanced, classifier, model, polarity, subjectivity) ==
    IF use_advanced /\ classifier
        THEN advanced_emotion_analysis(model, polarity, subjectivity)
        ELSE [ result  |-> basic_sentiment_analysis(polarity, subjectivity),
               invoked |-> <<"basic">> ]

\* EmotionDetector.detect_emotion; polarity and subjectivity are TextBlob's
\* answer for clean_text(text)
detect_emotion(text, use_advanced, classifier, model, polarity, subjectivity) ==
    IF text = <<>>
        THEN [ result  |-> [emotion |-> "neutral", score |-> 100, details |-> <<>>],
               invoked |-> <<>> ]
        ELSE IF use_advanced /\ classifier
            THEN advanced_emotion_analysis(model, polarity, subjectivity)
            ELSE [ result  |-> basic_sentiment_analysis(polarity, subjectivity),
                   invoked |-> <<"basic">> ]

\* analyze_with_intensity, lines 207-213
base_intensity_inclusive(score) ==
    IF score <= 40 THEN "low" ELSE IF score <= 70 THEN "medium" ELSE "high"

base_intensity(score) ==
    IF score < 40 THEN "low" ELSE IF score < 70 THEN "medium" ELSE "high"

\* analyze_with_intensity, lines 216-223: the tier after the surface cues
adjust_intensity_conjunctive(text, intensity) ==
    IF Count(text, "!") > 2 /\ 10 * CountUpper(text) > 3 * Max(Len(text) - Count(text, " "), 1)
        THEN "high"
        ELSE intensity

adjust_intensity(text, intensity) ==
    LET exclamations == Count(text, "!")
        uppers       == CountUpper(text)
        nonspace     == Max(Len(text) - Count(text, " "), 1)
    IN  \* exclamations > 2 or caps_ratio > 0.3
        IF exclamations > 2 \/ 10 * uppers > 3 * nonspace
            THEN (IF intensity # "high" THEN "high" ELSE intensity)
            ELSE intensity

\* EmotionDetector.analyze_with_intensity
analyze_with_intensity(text, use_advanced, classifier, model, polarity, subjectivity) ==
    LET d      == detect_emotion(text, use_advanced, classifier, model,
                                 polarity, subjectivity)
        result == d.result
        cues   == ("exclamations" :> Count(text, "!")) @@
                  ("questions" :> Count(text, "?")) @@
                  ("caps_ratio" :> RoundHalfEven(100 * CountUpper(text),
                                       Max(Len(text) - Count(text, " "), 1)))
    IN  [ result  |-> [ emotion   |-> result.emotion,
                        intensity |-> adjust_intensity(text, base_intensity(result.score)),
                        score     |-> result.score,
                        details   |-> cues @@ result.details ],
          invoked |-> d.invoked ]

(***************************************************************************)
(* voice_modulator.py: the backends.  A path is <<directory, stem,         *)
(* timestamp, extension>>; NoFile is None.  env says what the outside      *)
(* world does during the call: the local engine's two renderings, the      *)
(* HTTP request, the write of its answer, and gTTS.                        *)
(***************************************************************************)

NoFile == <<>>

\* os.path.dirname
dirname(path) == path[1]

\* what a backend call leaves: the returned path, the file system, the
\* invocations made, the paths written and the engine's properties
Outcome(audio, fs, log, wrote, rate, volume) ==
    [ audio |-> audio, files |-> fs, calls |-> log, wrote |-> wrote,
      rate |-> rate, volume |-> volume ]

Invocation(backend, text, rate_modifier, pitch_modifier, volume_modifier, ok, artifact) ==
    [ backend |-> backend, text |-> text, rate |-> rate_modifier,
      pitch |-> pitch_modifier, volume |-> volume_modifier,
      ok |-> ok, artifact |-> artifact ]

apply_pyttsx3_with_fallback(text, rate_modifier, pitch_modifier, volume_modifier, t, fs, eng, env) ==
    LET new_rate    == (eng.default_rate * rate_modifier) \div 1000
        new_volume  == Min(1000, (eng.default_volume * volume_modifier) \div 1000)
        output_file == <<"output", "speech", t, "wav">>
        mp3_file    == <<"output", "speech", t, "mp3">>
        inv(b, ok, a) == Invocation(b, text, rate_modifier, pitch_modifier,
                                    volume_modifier, ok, a)
    IN  IF env.render1 = "ok"
            THEN Outcome(output_file, fs \cup {output_file},
                         <<inv("pyttsx3", TRUE, output_file)
                             @@ [set_rate |-> new_rate, set_volume |-> new_volume,
                                 carried |-> eng.rate # eng.default_rate]>>, {output_file},
                         new_rate, new_volume)
            ELSE Outcome(mp3_file, fs \cup {mp3_file},
                         <<inv("pyttsx3", FALSE, NoFile)
                             @@ [set_rate |-> new_rate, set_volume |-> new_volume,
                                 carried |-> eng.rate # eng.default_rate],
                           inv("gtts", TRUE, mp3_file)>>,
                         {mp3_file}, new_rate, new_volume)

apply_pyttsx3_from_engine_rate(text, rate_modifier, pitch_modifier, volume_modifier, t, fs, eng, env) ==
    LET new_rate    == (eng.rate * rate_modifier) \div 1000
        new_volume  == Min(1000, (eng.default_volume * volume_modifier) \div 1000)
        output_file == <<"output", "speech", t, "wav">>
        fs1         == IF env.render1 = "ok" THEN fs \cup {output_file} ELSE fs
        wrote1      == IF env.render1 = "ok" THEN {output_file} ELSE {}
        inv(ok, a)  == Invocation("pyttsx3", text, rate_modifier, pitch_modifier,
                                  volume_modifier, ok, a)
                         @@ [set_rate |-> new_rate, set_volume |-> new_volume,
                             carried |-> eng.rate # eng.default_rate]
    IN  IF env.render1 = "raise"
            THEN Outcome(NoFile, fs, <<inv(FALSE, NoFile)>>, {}, new_rate, new_volume)
        ELSE IF pitch_modifier # One
            THEN LET pitch_adjusted_rate == (new_rate * (pitch_modifier + 1000)) \div 2000
                 IN  IF env.render2 = "raise"
                        THEN Outcome(NoFile, fs1, <<inv(FALSE, NoFile)>>, wrote1,
                                     pitch_adjusted_rate, new_volume)
                     ELSE IF env.render2 = "ok"
                        \* the pitched file exists and is moved onto output_file
                        THEN Outcome(output_file, fs \cup {output_file},
                                     <<inv(TRUE, output_file)>>, {output_file},
                                     pitch_adjusted_rate, new_volume)
                     ELSE Outcome(output_file, fs1, <<inv(TRUE, output_file)>>,
                                  wrote1, pitch_adjusted_rate, new_volume)
        ELSE Outcome(output_file, fs1, <<inv(TRUE, output_file)>>, wrote1,
                     new_rate, new_volume)

\* VoiceModulator._apply_pyttsx3_modulation.  The rates are the exact
\* quotients; the program truncates a float product, which can fall one
\* below the exact quotient when that is a whole number (200 * 1.3 as 259).
apply_pyttsx3_modulation(text, rate_modifier, pitch_modifier, volume_modifier, t, fs, eng, env) ==
    LET new_rate    == (eng.default_rate * rate_modifier) \div 1000
        new_volume  == Min(1000, (eng.default_volume * volume_modifier) \div 1000)
        output_file == <<"output", "speech", t, "wav">>
        fs1         == IF env.render1 = "ok" THEN fs \cup {output_file} ELSE fs
        wrote1      == IF env.render1 = "ok" THEN {output_file} ELSE {}
        \* lines 109-110: the properties set before the first rendering, and
        \* whether the engine held another rate than the baseline when the
        \* call began
        inv(ok, a)  == Invocation("pyttsx3", text, rate_modifier, pitch_modifier,
                                  volume_modifier, ok, a)
                         @@ [set_rate |-> new_rate, set_volume |-> new_volume,
                             carried |-> eng.rate # eng.default_rate]
    IN  IF env.render1 = "raise"
            THEN Outcome(NoFile, fs, <<inv(FALSE, NoFile)>>, {}, new_rate, new_volume)
        ELSE IF pitch_modifier # One
            THEN LET pitch_adjusted_rate == (new_rate * (pitch_modifier + 1000)) \div 2000
                 IN  IF env.render2 = "raise"
                        THEN Outcome(NoFile, fs1, <<inv(FALSE, NoFile)>>, wrote1,
                                     pitch_adjusted_rate, new_volume)
                     ELSE IF env.render2 = "ok"
                        \* the pitched file exists and is moved onto output_file
                        THEN Outcome(output_file, fs \cup {output_file},
                                     <<inv(TRUE, output_file)>>, {output_file},
                                     pitch_adjusted_rate, new_volume)
                     ELSE Outcome(output_file, fs1, <<inv(TRUE, output_file)>>,
                                  wrote1, pitch_adjusted_rate, new_volume)
        ELSE Outcome(output_file, fs1, <<inv(TRUE, output_file)>>, wrote1,
                     new_rate, new_volume)

\* VoiceModulator._apply_gtts_modulation
apply_gtts_modulation(text, rate_modifier, pitch_modifier, volume_modifier, t, fs, eng, env) ==
    LET output_file == <<"output", "speech", t, "mp3">>
        inv(ok, a)  == Invocation("gtts", text, rate_modifier, pitch_modifier,
                                  volume_modifier, ok, a)
    IN  IF env.gtts = "ok"
            THEN Outcome(output_file, fs \cup {output_file},
                         <<inv(TRUE, output_file)>>, {output_file},
                         eng.rate, eng.volume)
            ELSE Outcome(NoFile, fs, <<inv(FALSE, NoFile)>>, {}, eng.rate, eng.volume)

\* int(x) of a quotient n / d: the fraction is dropped, toward zero
TruncTowardZero(n, d) == IF n >= 0 THEN n \div d ELSE -((-n) \div d)

\* _apply_elevenlabs_modulation, line 227: int((modifier - 1) * 100), the
\* number in front of the % sign, of a modifier in thousandths
ssml_percent(modifier) == TruncTowardZero(modifier - One, 10)

apply_elevenlabs_no_fallback(text, rate_modifier, pitch_modifier, volume_modifier, t, fs, eng, env) ==
    LET output_file == <<"output", "speech", t, "mp3">>
        inv(ok, a)  == Invocation("elevenlabs", text, rate_modifier, pitch_modifier,
                                  volume_modifier, ok, a)
                         @@ [ssml |-> << ssml_percent(rate_modifier),
                                         ssml_percent(pitch_modifier),
                                         ssml_percent(volume_modifier) >>]
    IN  IF env.post = "200" /\ env.write = "ok"
            THEN Outcome(output_file, fs \cup {output_file},
                         <<inv(TRUE, output_file)>>, {output_file},
                         eng.rate, eng.volume)
            ELSE Outcome(NoFile, fs, <<inv(FALSE, NoFile)>>, {}, eng.rate, eng.volume)

\* VoiceModulator._apply_elevenlabs_modulation
apply_elevenlabs_modulation(text, rate_modifier, pitch_modifier, volume_modifier, t, fs, eng, env) ==
    LET output_file == <<"output", "speech", t, "mp3">>
        inv(ok, a)  == Invocation("elevenlabs", text, rate_modifier, pitch_modifier,
                                  volume_modifier, ok, a)
                         @@ [ssml |-> << ssml_percent(rate_modifier),
                                         ssml_percent(pitch_modifier),
                                         ssml_percent(volume_modifier) >>]
    IN  IF env.post = "200" /\ env.write = "ok"
            THEN Outcome(output_file, fs \cup {output_file},
                         <<inv(TRUE, output_file)>>, {output_file},
                         eng.rate, eng.volume)
            \* a status other than 200 (else branch), or requests.post or the
            \* write raising (except branch): both call _apply_gtts_modulation
            ELSE LET fb == apply_gtts_modulation(text, rate_modifier, pitch_modifier,
                                                 volume_modifier, t, fs, eng, env)
                 IN  Outcome(fb.audio, fb.files, <<inv(FALSE, NoFile)>> \o fb.calls,
                             fb.wrote, fb.rate, fb.volume)

Raised(fs, eng) ==
    [ kind |-> "raised", audio |-> NoFile, files |-> fs, calls |-> <<>>,
      wrote |-> {}, rate |-> eng.rate, volume |-> eng.volume ]

Returned(o) ==
    [ kind |-> "returned", audio |-> o.audio, files |-> o.files, calls |-> o.calls,
      wrote |-> o.wrote, rate |-> o.rate, volume |-> o.volume ]

\* VoiceModulator.generate_speech
generate_speech(text, emotion, intensity, output_file, etype, t, fs, eng, env) ==
    \* line 310: emotion.lower() of None raises AttributeError
    IF emotion = Null THEN Raised(fs, eng)
    ELSE LET mods == modifiers_of(emotion, intensity)
         IN  \* line 339: os.makedirs('') raises FileNotFoundError
             IF output_file # NoFile /\ dirname(output_file) = ""
                THEN Raised(fs, eng)
             ELSE IF etype = "pyttsx3"
                THEN Returned(apply_pyttsx3_modulation(text, mods[1], mods[2], mods[3],
                                                       t, fs, eng, env))
             ELSE IF etype = "elevenlabs"
                THEN Returned(apply_elevenlabs_modulation(text, mods[1], mods[2], mods[3],
                                                          t, fs, eng, env))
             ELSE Returned(apply_gtts_modulation(text, mods[1], mods[2], mods[3],
                                                 t, fs, eng, env))

(***************************************************************************)
(* empathy_engine.py                                                       *)
(***************************************************************************)

process_drop_result(text, output_file, use_advanced, classifier, model, polarity, subjectivity, etype, t, fs, eng, env) ==
    LET emotion_result == analyze_with_intensity(text, use_advanced, classifier,
                              model, polarity, subjectivity).result
        g == generate_speech(text, emotion_result.emotion, emotion_result.intensity,
                             output_file, etype, t, fs, eng, env)
    IN  g @@ [ emotion |-> IF g.kind = "returned" /\ g.audio # NoFile
                             THEN emotion_result ELSE <<>>,
               attempts |-> 1 ]

\* EmpathyEngine.process: the pair it returns and what it leaves behind
process(text, output_file, use_advanced, classifier, model, polarity, subjectivity, etype, t, fs, eng, env) ==
    LET emotion_result == analyze_with_intensity(text, use_advanced, classifier,
                              model, polarity, subjectivity).result
        emotion   == emotion_result.emotion
        intensity == emotion_result.intensity
        g == generate_speech(text, emotion, intensity, output_file,
                             etype, t, fs, eng, env)
    \* lines 47-59 run once: detection, then synthesis, nothing is caught
    IN  g @@ [ emotion |-> IF g.kind = "returned" THEN emotion_result ELSE <<>>,
               attempts |-> 1 ]

(***************************************************************************)
(* Construction and voice selection                                        *)
(***************************************************************************)

emotion_detector_init_keep_flag(use_advanced, probe, load) ==
    IF use_advanced /\ probe = "ok" /\ load = "ok"
        THEN [raised |-> FALSE, use_advanced |-> TRUE, classifier |-> TRUE]
        ELSE [raised |-> FALSE, use_advanced |-> use_advanced, classifier |-> FALSE]

\* EmotionDetector.__init__: probe is what socket.create_connection does,
\* load what pipeline(...) does; both except clauses clear the flag
emotion_detector_init(use_advanced, probe, load) ==
    IF use_advanced /\ probe = "ok" /\ load = "ok"
        THEN [raised |-> FALSE, use_advanced |-> TRUE, classifier |-> TRUE]
        ELSE [raised |-> FALSE, use_advanced |-> FALSE, classifier |-> FALSE]

voice_modulator_init_lazy_key(engine_type_arg, api_key, pyttsx3_init, vs) ==
    IF engine_type_arg = "pyttsx3"
        THEN IF pyttsx3_init = "ok"
                THEN [raised |-> FALSE, engine_type |-> "pyttsx3",
                      voice |-> IF vs # <<>> THEN 0 ELSE -1]
                ELSE [raised |-> FALSE, engine_type |-> "gtts", voice |-> -1]
    ELSE [raised |-> FALSE, engine_type |-> engine_type_arg, voice |-> -1]

\* VoiceModulator.__init__, lines 40-65: api_key is whether ELEVENLABS_API_KEY
\* is set, pyttsx3_init what the try block of the local engine does
voice_modulator_init(engine_type_arg, api_key, pyttsx3_init, vs) ==
    IF engine_type_arg = "elevenlabs" /\ ~api_key
        THEN [raised |-> TRUE, engine_type |-> engine_type_arg, voice |-> -1]
    ELSE IF engine_type_arg = "pyttsx3"
        THEN IF pyttsx3_init = "ok"
                THEN [raised |-> FALSE, engine_type |-> "pyttsx3",
                      voice |-> IF vs # <<>> THEN 0 ELSE -1]
                ELSE [raised |-> FALSE, engine_type |-> "gtts", voice |-> -1]
    ELSE [raised |-> FALSE, engine_type |-> engine_type_arg, voice |-> -1]

\* the installed voices: David and Mark are male, Zira and Hazel female
VoiceGender(v) == IF v \in {"david", "mark"} THEN "male" ELSE "female"

\* set_voice, line 391: "zira", "female" or "woman" occurs in voice.name.lower()
NameMatches(v) == v = "zira"

\* set_voice, lines 387-393: the first voice with a female name, -1 if none
female_idx(vs) ==
    LET S == { i \in 1..Len(vs) : NameMatches(vs[i]) }
    IN  IF S = {} THEN -1 ELSE (CHOOSE i \in S : \A j \in S : i <= j) - 1

set_voice_any_backend(etype, vs, cur, gender, raises) ==
    IF raises THEN [result |-> FALSE, voice |-> cur]
    ELSE IF vs = <<>> THEN [result |-> FALSE, voice |-> cur]
    ELSE LET idx == IF lower(gender) = "male" THEN 0
                    ELSE IF Len(vs) > 1
                        THEN IF female_idx(vs) >= 0 THEN female_idx(vs) ELSE 1
                    ELSE 0
             voice_idx == IF idx >= Len(vs) THEN 0 ELSE idx
         IN  [result |-> TRUE, voice |-> voice_idx]

\* VoiceModulator.set_voice: what it returns and the voice index it leaves
\* on the engine; raises is an exception of getProperty or setProperty
set_voice(etype, vs, cur, gender, raises) ==
    IF etype # "pyttsx3" THEN [result |-> FALSE, voice |-> cur]
    ELSE IF raises THEN [result |-> FALSE, voice |-> cur]
    ELSE IF vs = <<>> THEN [result |-> FALSE, voice |-> cur]
    ELSE LET idx == IF lower(gender) = "male" THEN 0
                    ELSE IF Len(vs) > 1
                        THEN IF female_idx(vs) >= 0 THEN female_idx(vs) ELSE 1
                    ELSE 0
             voice_idx == IF idx >= Len(vs) THEN 0 ELSE idx
         IN  [result |-> TRUE, voice |-> voice_idx]

(***************************************************************************)
(* Each specification below drives one component; the variables of the     *)
(* other components keep these values.                                     *)
(***************************************************************************)

NoModel == [raises |-> TRUE, results |-> <<>>]

MapIdle ==
    /\ m_emotion = "neutral"
    /\ m_intensity = "medium"
    /\ m_out = <<>>

DetIdle ==
    /\ d_text = <<>>
    /\ d_polarity = 0
    /\ d_subjectivity = 0
    /\ d_use_advanced = FALSE
    /\ d_classifier = FALSE
    /\ d_model = NoModel
    /\ d_op = "init"
    /\ d_result = <<>>
    /\ d_invoked = <<>>

ModIdle ==
    /\ engine_type = "gtts"
    /\ default_rate = 200
    /\ default_volume = 1000
    /\ engine_rate = 200
    /\ engine_volume = 1000
    /\ now = 0
    /\ files = {}
    /\ calls = <<>>
    /\ written = <<>>
    /\ op = "init"
    /\ ret = [kind |-> "none", audio |-> NoFile, emotion |-> <<>>, attempts |-> 0,
             requested |-> NoFile]

CtorIdle ==
    /\ ctor = [phase |-> "ready"]
    /\ voices = <<>>
    /\ voice = -1
    /\ sv = <<>>

WebIdle ==
    /\ g_engine = [id |-> 0, engine_type |-> Null]
    /\ constructions = 0
    /\ reqs = <<>>

(***************************************************************************)
(* The prosody mapper as a function of its two arguments                   *)
(***************************************************************************)

EmotionArgs   == DOMAIN emotion_mapping \cup {"joy", "sadness", "anger", "disgust", "HAPPY", "Sad"}
IntensityArgs == DOMAIN intensity_mapping \cup {"HIGH", "Low", "extreme"}

MapInit ==
    /\ m_emotion \in EmotionArgs
    /\ m_intensity \in IntensityArgs
    /\ m_out = <<>>
    /\ DetIdle
    /\ ModIdle
    /\ CtorIdle
    /\ WebIdle

MapProsody ==
    /\ m_out = <<>>
    /\ m_out' = modifiers_of(m_emotion, m_intensity)
    /\ UNCHANGED <<m_emotion, m_intensity>>
    /\ UNCHANGED detVars
    /\ UNCHANGED modVars
    /\ UNCHANGED ctorVars
    /\ UNCHANGED webVars

MapNext == MapProsody

SpecMap == MapInit /\ [][MapNext]_vars

(***************************************************************************)
(* C1: for every label of the base mapping and every tier, each of rate,   *)
(* pitch and volume is the base multiplier m at medium, halfway between m  *)
(* and 1.0 at low, 1.5 times as far from 1.0 as m (same side) at high, and *)
(* 1.0 stays 1.0 at every tier.                                            *)
(***************************************************************************)
C1_IntensityScaling ==
    (/\ m_out # <<>>
     /\ m_emotion \in DOMAIN emotion_mapping
     /\ m_intensity \in DOMAIN intensity_mapping)
    => \A i \in 1..3 :
        LET m == emotion_mapping[m_emotion][i]
            r == m_out[i]
        IN  /\ m_intensity = "medium" => r = m
            /\ m_intensity = "low"    => 2 * (r - One) = m - One
            /\ m_intensity = "high"   => 2 * (r - One) = 3 * (m - One)
            /\ m = One => r = One

C1_Witness ==
    /\ m_emotion = "sad"
    /\ m_intensity = "high"
    /\ m_out = <<850, 775, 850>>


(***************************************************************************)
(* C18: for every label that is not a key of the base mapping and every    *)
(* tier (low, medium, high) the prosody mapper yields the neutral triple   *)
(* (1.0, 1.0, 1.0).                                                        *)
(***************************************************************************)
C18_UnknownLabelNeutral ==
    (/\ m_out # <<>>
     /\ lower(m_emotion) \notin DOMAIN emotion_mapping
     /\ m_intensity \in DOMAIN intensity_mapping)
    => m_out = <<One, One, One>>

C18_Witness ==
    /\ m_emotion = "joy"
    /\ m_intensity = "high"
    /\ m_out = <<1000, 1000, 1000>>

\* the labels of the classifier j-hartmann/emotion-english-distilroberta-base
ModelVocabulary == {"joy", "sadness", "anger", "fear", "surprise", "disgust", "neutral"}

(***************************************************************************)
(* C25 as stated: of the labels of the model-based vocabulary only fear    *)
(* and surprise have a row in the base mapping, and joy, sadness, anger    *)
(* and disgust get the neutral triple at every tier.                       *)
(***************************************************************************)
C25_OnlyFearSurpriseMapped ==
    (m_out # <<>> /\ m_emotion \in ModelVocabulary) =>
        /\ (m_emotion \in DOMAIN emotion_mapping) <=> (m_emotion \in {"fear", "surprise"})
        /\ m_emotion \in {"joy", "sadness", "anger", "disgust"} => m_out = <<One, One, One>>

(***************************************************************************)
(* C25 amended: of the labels of the model-based vocabulary fear, surprise *)
(* and neutral have a row in the base mapping (the row of neutral being    *)
(* the neutral triple); joy, sadness, anger and disgust have none and get  *)
(* the neutral triple at every tier.                                       *)
(***************************************************************************)
C25_ModelLabelsMapped ==
    (m_out # <<>> /\ m_emotion \in ModelVocabulary) =>
        /\ (m_emotion \in DOMAIN emotion_mapping)
              <=> (m_emotion \in {"fear", "surprise", "neutral"})
        /\ m_emotion \in {"joy", "sadness", "anger", "disgust", "neutral"}
              => m_out = <<One, One, One>>

\* anger at the high tier is spoken with the neutral triple
C25_Witness ==
    /\ m_emotion = "anger"
    /\ m_intensity = "high"
    /\ m_out = <<1000, 1000, 1000>>

(***************************************************************************)
(* The lexical strategy as a function of the scorer's answer               *)
(***************************************************************************)

\* what the classifier pipeline can answer: label and score in thousandths
ModelOutputs ==
    { NoModel,
      [raises |-> FALSE, results |-> <<>>],
      [raises |-> FALSE, results |-> << <<"joy", 905>>, <<"neutral", 95>> >>],
      [raises |-> FALSE, results |-> << <<"anger", 500>>, <<"fear", 500>> >>],
      [raises |-> FALSE, results |-> << <<"joy", 0>>, <<"sadness", 0>> >>],
      [raises |-> FALSE, results |-> << <<"fear", 304>>, <<"sadness", 396>>,
                                        <<"neutral", 300>> >>] }

LexInit ==
    /\ MapIdle
    /\ ModIdle
    /\ CtorIdle
    /\ WebIdle
    /\ d_text = <<"a">>
    /\ d_polarity \in -100..100
    /\ d_subjectivity \in {0, 25, 50, 75, 100}
    /\ d_use_advanced \in BOOLEAN
    /\ d_classifier = d_use_advanced
    /\ d_model \in ModelOutputs
    /\ ~d_use_advanced => d_model = NoModel
    /\ d_op = "init"
    /\ d_result = <<>>
    /\ d_invoked = <<>>

BasicSentimentAnalysis ==
    /\ d_op = "init"
    /\ d_op' = "basic_sentiment_analysis"
    /\ d_result' = basic_sentiment_analysis(d_polarity, d_subjectivity)
    /\ d_invoked' = <<"basic">>
    /\ UNCHANGED <<d_text, d_polarity, d_subjectivity, d_use_advanced,
                   d_classifier, d_model>>
    /\ UNCHANGED mapVars
    /\ UNCHANGED modVars
    /\ UNCHANGED ctorVars
    /\ UNCHANGED webVars


(***************************************************************************)
(* The detector: detect_emotion and analyze_with_intensity on one text     *)
(***************************************************************************)

MaxTextLen == 4

\* "a" stands for a lower-case letter, "A" for an upper-case letter
Alphabet == {"a", "A", "!", " "}

Texts == UNION { [1..n -> Alphabet] : n \in 0..MaxTextLen }

\* polarities on both sides of each threshold of the lexical strategy
Polarities == {-100, -31, -30, -20, -11, -10, 0, 10, 11, 28, 30, 31, 100}

Subjectivities == {0, 50, 100}

\* the scorer finds sentiment only in words
HasLetter(text) == \E i \in 1..Len(text) : text[i] \in {"a", "A"}

DetInit ==
    /\ MapIdle
    /\ ModIdle
    /\ CtorIdle
    /\ WebIdle
    /\ d_text \in Texts
    /\ d_polarity \in Polarities
    /\ d_subjectivity \in Subjectivities
    /\ ~HasLetter(d_text) => d_polarity = 0 /\ d_subjectivity = 0
    \* __init__ leaves use_advanced true only with the classifier loaded
    /\ d_use_advanced \in BOOLEAN
    /\ d_classifier = d_use_advanced
    /\ d_model \in ModelOutputs
    /\ ~d_use_advanced => d_model = NoModel
    /\ d_op = "init"
    /\ d_result = <<>>
    /\ d_invoked = <<>>

DetectEmotion ==
    /\ d_op = "init"
    /\ LET r == detect_emotion(d_text, d_use_advanced, d_classifier, d_model,
                               d_polarity, d_subjectivity)
       IN  /\ d_result' = r.result
           /\ d_invoked' = r.invoked
    /\ d_op' = "detect_emotion"
    /\ UNCHANGED <<d_text, d_polarity, d_subjectivity, d_use_advanced,
                   d_classifier, d_model>>
    /\ UNCHANGED mapVars
    /\ UNCHANGED modVars
    /\ UNCHANGED ctorVars
    /\ UNCHANGED webVars

AnalyzeWithIntensity ==
    /\ d_op = "init"
    /\ LET r == analyze_with_intensity(d_text, d_use_advanced, d_classifier,
                                       d_model, d_polarity, d_subjectivity)
       IN  /\ d_result' = r.result
           /\ d_invoked' = r.invoked
    /\ d_op' = "analyze_with_intensity"
    /\ UNCHANGED <<d_text, d_polarity, d_subjectivity, d_use_advanced,
                   d_classifier, d_model>>
    /\ UNCHANGED mapVars
    /\ UNCHANGED modVars
    /\ UNCHANGED ctorVars
    /\ UNCHANGED webVars

DetNext == DetectEmotion \/ AnalyzeWithIntensity

SpecDetect == DetInit /\ [][DetNext]_vars

\* the lexical strategy called directly, and through detect_emotion
LexNext == BasicSentimentAnalysis \/ DetectEmotion

SpecLex == LexInit /\ [][LexNext]_vars

TierRank(t) == CASE t = "low" -> 0 [] t = "medium" -> 1 [] t = "high" -> 2

(***************************************************************************)
(* C2: a text with more than 2 '!' characters, or whose ratio of upper-case *)
(* letters to non-space characters exceeds 0.3, gets intensity "high" from *)
(* analyze_with_intensity whatever the score; the surface-cue rule never   *)
(* gives a tier below the tier of the score.                               *)
(***************************************************************************)
C2_Escalation ==
    d_op = "analyze_with_intensity" =>
        /\ (\/ Count(d_text, "!") > 2
            \/ 10 * CountUpper(d_text) > 3 * Max(Len(d_text) - Count(d_text, " "), 1))
           => d_result.intensity = "high"
        /\ LET s == d_result.score
               t == IF s < 40 THEN 0 ELSE IF s < 70 THEN 1 ELSE 2
           IN  TierRank(d_result.intensity) >= t

\* four '!' after a word scored below 0.4
C2_Witness ==
    /\ d_op = "analyze_with_intensity"
    /\ d_text = <<"a", "!", "!", "!">>
    /\ d_result.score < 40
    /\ d_result.intensity = "high"

(***************************************************************************)
(* C3: a text with at most 2 '!' characters and an upper-case ratio of at  *)
(* most 0.3 gets exactly the tier of the returned score: low below 0.4,    *)
(* medium from 0.4 to below 0.7, high from 0.7.                            *)
(***************************************************************************)
C3_BaseTier ==
    (/\ d_op = "analyze_with_intensity"
     /\ Count(d_text, "!") <= 2
     /\ 10 * CountUpper(d_text) <= 3 * Max(Len(d_text) - Count(d_text, " "), 1))
    => LET s == d_result.score
       IN  /\ s < 40 => d_result.intensity = "low"
           /\ (40 <= s /\ s < 70) => d_result.intensity = "medium"
           /\ s >= 70 => d_result.intensity = "high"

\* two '!' and one upper-case letter in four: a score of exactly 0.4 is medium
C3_Witness ==
    /\ d_op = "analyze_with_intensity"
    /\ d_text = <<"A", "a", "!", "!">>
    /\ d_polarity = 30
    /\ d_subjectivity = 0
    /\ d_result.score = 40
    /\ d_result.intensity = "medium"

(***************************************************************************)
(* C4: the lexical strategy labels polarity p "happy" when p > 0.3, "sad"  *)
(* when p < -0.3, "positive" when 0.1 < p <= 0.3, "negative" when          *)
(* -0.3 <= p < -0.1 and "neutral" when -0.1 <= p <= 0.1.                   *)
(***************************************************************************)
C4_PolarityLabels ==
    d_op = "basic_sentiment_analysis" =>
        LET p == d_polarity
            e == d_result.emotion
        IN  /\ (e = "happy")    <=> (p > 30)
            /\ (e = "sad")      <=> (p < -30)
            /\ (e = "positive") <=> (10 < p /\ p <= 30)
            /\ (e = "negative") <=> (-30 <= p /\ p < -10)
            /\ (e = "neutral")  <=> (-10 <= p /\ p <= 10)

\* polarity exactly 0.3 is still "positive"
C4_Witness ==
    /\ d_op = "basic_sentiment_analysis"
    /\ d_polarity = 30
    /\ d_result.emotion = "positive"

(***************************************************************************)
(* C5: detect_emotion on the empty string returns label "neutral", score   *)
(* 1.0 and empty details without invoking the lexical or the model-based   *)
(* strategy, in lexical and in model-based mode alike.                     *)
(***************************************************************************)
C5_EmptyText ==
    (d_op = "detect_emotion" /\ d_text = <<>>) =>
        /\ d_result = [emotion |-> "neutral", score |-> 100, details |-> <<>>]
        /\ d_invoked = <<>>

\* the empty string given to a detector in model-based mode
C5_Witness ==
    /\ d_op = "detect_emotion"
    /\ d_text = <<>>
    /\ d_use_advanced
    /\ d_classifier
    /\ d_result.emotion = "neutral"

(***************************************************************************)
(* C11: in model-based mode, when the model invocation raises during       *)
(* detect_emotion, the call returns what the lexical strategy computes for *)
(* the same cleaned text, and nothing is raised to the caller.             *)
(***************************************************************************)
C11_InferenceFallback ==
    (/\ d_op = "detect_emotion"
     /\ d_text # <<>>
     /\ d_use_advanced /\ d_classifier
     /\ d_model.raises)
    => /\ d_result = basic_sentiment_analysis(d_polarity, d_subjectivity)
       /\ d_invoked = <<"advanced", "basic">>

\* the classifier raised on a text the scorer rates -0.31: the answer is "sad"
C11_Witness ==
    /\ d_op = "detect_emotion"
    /\ d_use_advanced
    /\ d_model.raises
    /\ d_polarity = -31
    /\ d_subjectivity = 100
    /\ d_result.emotion = "sad"
    /\ d_result.score = 81

RECURSIVE SumScores(_)
SumScores(results) ==
    IF results = <<>> THEN 0 ELSE Head(results)[2] + SumScores(Tail(results))

\* a non-empty score distribution: the scores of the labels add up to 1
IsDistribution(results) == results # <<>> /\ SumScores(results) = 1000

(***************************************************************************)
(* C16: in the model-based strategy, for every non-empty score             *)
(* distribution the model returns, the result label has the maximum score, *)
(* the result score is that maximum rounded to 2 decimals, and it equals   *)
(* the entry of the label in the returned per-label scores.                *)
(***************************************************************************)
C16_MaxLabel ==
    (/\ d_op = "detect_emotion"
     /\ d_text # <<>>
     /\ d_use_advanced /\ d_classifier
     /\ ~d_model.raises
     /\ IsDistribution(d_model.results))
    => LET rs == d_model.results
       IN  /\ \E i \in 1..Len(rs) :
                /\ rs[i][1] = d_result.emotion
                /\ \A j \in 1..Len(rs) : rs[j][2] <= rs[i][2]
                /\ d_result.score = RoundHalfEven(rs[i][2], 10)
           /\ d_result.emotion \in DOMAIN d_result.details
           /\ d_result.score = d_result.details[d_result.emotion]

\* the maximum is the second of three labels and rounds from 0.396 to 0.4
C16_Witness ==
    /\ d_op = "detect_emotion"
    /\ d_use_advanced
    /\ ~d_model.raises
    /\ Len(d_model.results) = 3
    /\ d_result.emotion = "sadness"
    /\ d_result.score = 40
    /\ d_result.details["sadness"] = 40

(***************************************************************************)
(* C28: in the model-based strategy the result label is the first label in *)
(* the classifier's output order that has the maximum score, and it is one *)
(* of the returned labels whenever the model returns at least one label,   *)
(* also when all scores are 0.                                             *)
(***************************************************************************)
C28_FirstMaxLabel ==
    (/\ d_op = "detect_emotion"
     /\ d_text # <<>>
     /\ d_use_advanced /\ d_classifier
     /\ ~d_model.raises
     /\ d_model.results # <<>>)
    => LET rs == d_model.results
       IN  \E i \in 1..Len(rs) :
              /\ rs[i][1] = d_result.emotion
              /\ \A j \in 1..Len(rs) : rs[j][2] <= rs[i][2]
              /\ \A j \in 1..(i - 1) : rs[j][2] < rs[i][2]

(***************************************************************************)
(* C17: for every polarity in [-1,1] and subjectivity in [0,1] the score   *)
(* of the lexical strategy lies in [0.0, 1.0], and so does the score of    *)
(* every result detect_emotion returns.                                    *)
(***************************************************************************)
C17_ScoreRange ==
    d_op \in {"basic_sentiment_analysis", "detect_emotion"} =>
        /\ 0 <= d_result.score
        /\ d_result.score <= 100

\* polarity 1.0 and subjectivity 1.0: the cap of the base score is what
\* keeps the score at 1.0
C17_Witness ==
    /\ d_op = "basic_sentiment_analysis"
    /\ d_polarity = 100
    /\ d_subjectivity = 100
    /\ d_result.emotion = "happy"
    /\ d_result.score = 100

(***************************************************************************)
(* The engine: one EmpathyEngine, constructed, taking calls one after      *)
(* another while the clock advances.                                       *)
(***************************************************************************)

MaxCalls == 2
MaxTime == 1

Renderings == {"ok", "silent", "raise"}

\* what the outside world can do during a call on each backend
\* (an outcome that is not reached is "ok": the second rendering after a
\* first one that raised, the write after a failed request, gTTS after a
\* premium call that succeeded)
Envs(etype) ==
    IF etype = "pyttsx3"
        THEN { e \in [render1 : Renderings, render2 : Renderings,
                      post : {"200"}, write : {"ok"}, gtts : {"ok"}] :
                 e.render1 = "raise" => e.render2 = "ok" }
    ELSE IF etype = "elevenlabs"
        THEN { e \in [render1 : {"ok"}, render2 : {"ok"},
                      post : {"200", "401", "raise"}, write : {"ok", "raise"},
                      gtts : {"ok", "raise"}] :
                 /\ e.post # "200" => e.write = "ok"
                 /\ (e.post = "200" /\ e.write = "ok") => e.gtts = "ok" }
    ELSE [render1 : {"ok"}, render2 : {"ok"},
          post : {"200"}, write : {"ok"}, gtts : {"ok", "raise"}]

PipeTexts == { <<>>, <<"a">> }

\* <<polarity, subjectivity>> of a sad and of a neutral text
PipeSentiments == { <<-50, 100>>, <<0, 0>> }
PipeModels ==
    { NoModel,
      [raises |-> FALSE, results |-> <<>>],
      [raises |-> FALSE, results |-> << <<"fear", 905>>, <<"neutral", 95>> >>] }

\* the output_file argument: absent, a bare file name, a path with a directory
OutputFiles == { NoFile, <<"", "out", 0, "wav">>, <<"out", "web", 0, "wav">> }

Engine == [ default_rate |-> default_rate, default_volume |-> default_volume,
            rate |-> engine_rate, volume |-> engine_volume ]

Init ==
    /\ MapIdle
    /\ CtorIdle
    /\ WebIdle
    /\ d_text = <<>>
    /\ d_polarity = 0
    /\ d_subjectivity = 0
    /\ d_use_advanced \in BOOLEAN
    /\ d_classifier = d_use_advanced
    /\ d_model = NoModel
    /\ d_op = "init"
    /\ d_result = <<>>
    /\ d_invoked = <<>>
    /\ engine_type \in {"pyttsx3", "gtts", "elevenlabs"}
    /\ default_rate = 200
    /\ default_volume = 1000
    /\ engine_rate = default_rate
    /\ engine_volume = default_volume
    /\ now = 0
    /\ files = {}
    /\ calls = <<>>
    /\ written = <<>>
    /\ op = "init"
    /\ ret = [kind |-> "none", audio |-> NoFile, emotion |-> <<>>, attempts |-> 0,
             requested |-> NoFile]

Leave(r, name) ==
    /\ files' = r.files
    /\ calls' = r.calls
    /\ written' = Append(written, r.wrote)
    /\ engine_rate' = r.rate
    /\ engine_volume' = r.volume
    /\ op' = name
    /\ ret' = [kind |-> r.kind, audio |-> r.audio, emotion |-> r.emotion,
               attempts |-> r.attempts, requested |-> r.requested]
    /\ UNCHANGED <<engine_type, default_rate, default_volume, now>>
    /\ UNCHANGED mapVars
    /\ UNCHANGED webVars

\* the detector's side of a process call: line 47 of empathy_engine.py
Detect(text, model, polarity, subjectivity) ==
    LET a == analyze_with_intensity(text, d_use_advanced, d_classifier, model,
                                    polarity, subjectivity)
    IN  /\ d_text' = text
        /\ d_polarity' = polarity
        /\ d_subjectivity' = subjectivity
        /\ d_model' = model
        /\ d_op' = "analyze_with_intensity"
        /\ d_result' = a.result
        /\ d_invoked' = a.invoked
        /\ UNCHANGED <<d_use_advanced, d_classifier>>

Process ==
    /\ Len(written) < MaxCalls
    /\ \E text \in PipeTexts, sentiment \in PipeSentiments, model \in PipeModels :
        /\ ~HasLetter(text) => sentiment = <<0, 0>>
        \* the classifier is consulted in model-based mode on a non-empty text,
        \* the scorer in lexical mode or when the classifier raises
        /\ (~d_use_advanced \/ text = <<>>) => model = NoModel
        /\ (d_use_advanced /\ text # <<>> /\ ~model.raises) => sentiment = <<0, 0>>
        /\ Detect(text, model, sentiment[1], sentiment[2])
        /\ \E output_file \in OutputFiles, env \in Envs(engine_type) :
            Leave(process(text, output_file, d_use_advanced, d_classifier, model,
                          sentiment[1], sentiment[2], engine_type, now, files,
                          Engine, env)
                    @@ [requested |-> output_file],
                  "process")
    /\ UNCHANGED ctorVars

GenerateSpeech ==
    /\ Len(written) < MaxCalls
    /\ \E profile \in {<<"neutral", "high">>, <<"sad", "low">>, <<"sad", "high">>},
          output_file \in OutputFiles, env \in Envs(engine_type) :
        Leave(generate_speech(<<"a">>, profile[1], profile[2], output_file,
                              engine_type, now, files, Engine, env)
                @@ [emotion |-> <<>>, attempts |-> 1, requested |-> output_file],
              "generate_speech")
    /\ UNCHANGED detVars
    /\ UNCHANGED ctorVars

Tick ==
    /\ now < MaxTime
    /\ now' = now + 1
    /\ UNCHANGED <<engine_type, default_rate, default_volume, engine_rate,
                   engine_volume, files, calls, written, op, ret>>
    /\ UNCHANGED mapVars
    /\ UNCHANGED detVars
    /\ UNCHANGED ctorVars
    /\ UNCHANGED webVars

Next == Process \/ GenerateSpeech \/ Tick

Spec == Init /\ [][Next]_vars

GttsCalls == { i \in 1..Len(calls) : calls[i].backend = "gtts" }

(***************************************************************************)
(* C6: when the cloud_premium (elevenlabs) attempt of a call fails, by a   *)
(* status other than 200 or by an exception, cloud_basic (gtts) is invoked *)
(* exactly once, after it, with the same text and the same rate, pitch and *)
(* volume multipliers, and the call returns what gtts returned instead of  *)
(* raising.                                                                *)
(***************************************************************************)
C6_PremiumFallback ==
    (/\ calls # <<>>
     /\ calls[1].backend = "elevenlabs"
     /\ ~calls[1].ok)
    => /\ Len(calls) = 2
       /\ GttsCalls = {2}
       /\ calls[2].text = calls[1].text
       /\ calls[2].rate = calls[1].rate
       /\ calls[2].pitch = calls[1].pitch
       /\ calls[2].volume = calls[1].volume
       /\ ret.kind = "returned"
       /\ ret.audio = calls[2].artifact
       /\ calls[2].ok => ret.audio # NoFile /\ ret.audio \in files

\* the premium attempt failed and gtts produced the artifact
C6_Witness ==
    /\ engine_type = "elevenlabs"
    /\ Len(calls) = 2
    /\ ~calls[1].ok
    /\ calls[2].backend = "gtts"
    /\ calls[2].ok
    /\ calls[2].rate = 850
    /\ ret.audio = <<"output", "speech", now, "mp3">>

(***************************************************************************)
(* C7: process never lets an exception escape: every call returns a pair   *)
(* (audio path or None, emotion result).                                   *)
(***************************************************************************)
C7_ProcessNeverRaises ==
    op = "process" => ret.kind = "returned"

(***************************************************************************)
(* C8: when every synthesis attempt of a process call fails, process       *)
(* returns None for the audio path together with an emotion result that    *)
(* carries the detected label, intensity and score.                        *)
(***************************************************************************)
C8_NoAudioKeepsEmotion ==
    (/\ op = "process"
     /\ calls # <<>>
     /\ \A i \in 1..Len(calls) : ~calls[i].ok)
    => /\ ret.kind = "returned"
       /\ ret.audio = NoFile
       /\ {"emotion", "intensity", "score"} \subseteq DOMAIN ret.emotion
       /\ ret.emotion.emotion = d_result.emotion
       /\ ret.emotion.intensity = d_result.intensity
       /\ ret.emotion.score = d_result.score
       /\ ret.emotion.emotion # Null
       /\ ret.emotion.intensity \in {"low", "medium", "high"}

\* elevenlabs and then gtts failed on a text detected as sad
C8_Witness ==
    /\ op = "process"
    /\ Len(calls) = 2
    /\ ~calls[1].ok
    /\ ~calls[2].ok
    /\ ret.audio = NoFile
    /\ d_polarity = -50
    /\ ret.emotion.emotion = "sad"
    /\ ret.emotion.intensity = "high"
    /\ ret.emotion.score = 100

(***************************************************************************)
(* C9: any two synthesize calls write to distinct output file paths.       *)
(***************************************************************************)
C9_DistinctPaths ==
    \A i, j \in 1..Len(written) :
        i # j => written[i] \cap written[j] = {}

(***************************************************************************)
(* C10: whenever generate_speech or process returns a path, a file exists  *)
(* at that path when the call returns.                                     *)
(***************************************************************************)
C10_ReturnedFileExists ==
    (ret.kind = "returned" /\ ret.audio # NoFile) => ret.audio \in files

(***************************************************************************)
(* C14: a generate_speech call on the local backend (pyttsx3) invokes no   *)
(* other backend, and returns None when the local backend fails.           *)
(***************************************************************************)
C14_LocalTerminal ==
    (calls # <<>> /\ calls[1].backend = "pyttsx3")
    => /\ Len(calls) = 1
       /\ \A i \in 1..Len(calls) : calls[i].backend \notin {"gtts", "elevenlabs"}
       /\ ~calls[1].ok => (ret.kind = "returned" /\ ret.audio = NoFile)

\* the local rendering raised: None comes back and no mp3 was produced
C14_Witness ==
    /\ engine_type = "pyttsx3"
    /\ op = "generate_speech"
    /\ Len(calls) = 1
    /\ ~calls[1].ok
    /\ ret.audio = NoFile
    /\ files = {}

(***************************************************************************)
(* C15: if synthesis throws during a process call while the classifier is  *)
(* in model-based mode, exactly one retry is made; no process call runs    *)
(* its pipeline more than twice.                                           *)
(***************************************************************************)
C15_SingleRetry ==
    op = "process" =>
        /\ ret.attempts \in {1, 2}
        /\ (d_use_advanced /\ d_classifier /\ ret.kind = "raised")
               => ret.attempts = 2

(***************************************************************************)
(* C21: when process or generate_speech is called with an output path and  *)
(* returns an audio path, the returned path is the given one and the file  *)
(* exists there; the timestamp-based path is used only without one.        *)
(***************************************************************************)
C21_OutputPathHonored ==
    (/\ op \in {"process", "generate_speech"}
     /\ ret.kind = "returned"
     /\ ret.audio # NoFile
     /\ ret.requested # NoFile)
    => /\ ret.audio = ret.requested
       /\ ret.requested \in files

\* d tenths of a percent rounded to a whole percent: the nearest integer,
\* and at a tie the even one or the one away from zero
NearestPercents(d) ==
    { p \in -100..100 :
        /\ Abs(10 * p - d) <= 5
        /\ Abs(10 * p - d) = 5 => (p % 2 = 0 \/ Abs(10 * p) > Abs(d)) }

(***************************************************************************)
(* C24: the elevenlabs backend sends rate, pitch and volume as the         *)
(* percentage (multiplier - 1) * 100 rounded to the nearest integer, for   *)
(* multipliers above and below 1.0 alike.                                  *)
(***************************************************************************)
C24_PercentRounded ==
    \A i \in 1..Len(calls) :
        calls[i].backend = "elevenlabs" =>
            /\ calls[i].ssml[1] \in NearestPercents(calls[i].rate - One)
            /\ calls[i].ssml[2] \in NearestPercents(calls[i].pitch - One)
            /\ calls[i].ssml[3] \in NearestPercents(calls[i].volume - One)

(***************************************************************************)
(* C26: after any sequence of pyttsx3 calls the baseline rate and volume   *)
(* are those captured at construction, and the first rendering of every    *)
(* call uses the rate floor(default_rate * rate_multiplier) and the volume *)
(* min(1.0, default_volume * volume_multiplier), whatever rate the earlier *)
(* calls left on the engine.                                               *)
(***************************************************************************)
C26_BaselineKept ==
    engine_type = "pyttsx3" =>
        /\ default_rate = 200
        /\ default_volume = 1000
        /\ \A i \in 1..Len(calls) :
              calls[i].backend = "pyttsx3" =>
                /\ calls[i].set_rate = (200 * calls[i].rate) \div 1000
                /\ calls[i].set_volume = Min(1000, calls[i].volume)

\* the call before left a pitch-adjusted rate on the engine; this call
\* rendered sad at the low tier with 200 * 0.95 = 190 all the same
C26_Witness ==
    /\ engine_type = "pyttsx3"
    /\ Len(written) = 2
    /\ Len(calls) = 1
    /\ calls[1].carried
    /\ calls[1].rate = 950
    /\ calls[1].set_rate = 190

(***************************************************************************)
(* Construction: EmpathyEngine.__init__ builds the detector, then the      *)
(* modulator; afterwards the engine takes a detect_emotion, a set_voice    *)
(* and a generate_speech call.                                             *)
(***************************************************************************)

VoiceLists ==
    { <<>>, <<"david">>, <<"david", "zira">>, <<"david", "mark">>,
      <<"david", "mark", "zira">>, <<"hazel", "david">> }

Genders == {"male", "female", "Male"}

CtorInit ==
    /\ MapIdle
    /\ WebIdle
    /\ d_text = <<"a">>
    /\ d_polarity = -50
    /\ d_subjectivity = 100
    /\ d_use_advanced = FALSE
    /\ d_classifier = FALSE
    /\ d_model \in { NoModel,
                     [raises |-> FALSE,
                      results |-> << <<"fear", 905>>, <<"neutral", 95>> >>] }
    /\ d_op = "init"
    /\ d_result = <<>>
    /\ d_invoked = <<>>
    /\ engine_type = Null
    /\ default_rate = 200
    /\ default_volume = 1000
    /\ engine_rate = 200
    /\ engine_volume = 1000
    /\ now = 0
    /\ files = {}
    /\ calls = <<>>
    /\ written = <<>>
    /\ op = "init"
    /\ ret = [kind |-> "none", audio |-> NoFile, emotion |-> <<>>, attempts |-> 0,
             requested |-> NoFile]
    /\ ctor \in [ phase : {"new"}, use_advanced : BOOLEAN,
                   tts_engine : {"pyttsx3", "gtts", "elevenlabs"},
                   api_key : BOOLEAN, probe : {"none"}, load : {"none"},
                   pyttsx3_init : {"none"} ]
    /\ voices \in VoiceLists
    /\ voice = -1
    /\ sv = <<>>

\* empathy_engine.py line 30: EmotionDetector(use_advanced=...)
NewEmotionDetector ==
    /\ ctor.phase = "new"
    /\ \E probe \in {"none", "ok", "fail"}, load \in {"none", "ok", "raise"} :
        \* the probe runs when the model is requested, the load after the probe
        /\ (probe # "none") <=> ctor.use_advanced
        /\ (load # "none") <=> (probe = "ok")
        /\ LET r == emotion_detector_init(ctor.use_advanced, probe, load)
           IN  /\ d_use_advanced' = r.use_advanced
               /\ d_classifier' = r.classifier
               /\ ctor' = [ctor EXCEPT !.phase = IF r.raised THEN "detector_failed"
                                                  ELSE "detector",
                                       !.probe = probe, !.load = load]
    /\ UNCHANGED <<d_text, d_polarity, d_subjectivity, d_model, d_op, d_result,
                   d_invoked, voices, voice, sv>>
    /\ UNCHANGED mapVars
    /\ UNCHANGED modVars
    /\ UNCHANGED webVars

\* empathy_engine.py line 31: VoiceModulator(engine_type=tts_engine)
NewVoiceModulator ==
    /\ ctor.phase = "detector"
    /\ \E pyttsx3_init \in {"none", "ok", "raise"} :
        /\ (pyttsx3_init # "none")
              <=> (ctor.tts_engine = "pyttsx3")
        /\ LET r == voice_modulator_init(ctor.tts_engine, ctor.api_key,
                                         pyttsx3_init, voices)
           IN  /\ engine_type' = IF r.raised THEN engine_type ELSE r.engine_type
               /\ voice' = r.voice
               /\ ctor' = [ctor EXCEPT !.phase = IF r.raised THEN "modulator_failed"
                                                  ELSE "ready",
                                       !.pyttsx3_init = pyttsx3_init]
    /\ UNCHANGED <<default_rate, default_volume, engine_rate, engine_volume,
                   now, files, calls, written, op, ret, voices, sv>>
    /\ UNCHANGED mapVars
    /\ UNCHANGED detVars
    /\ UNCHANGED webVars

\* a detect_emotion call on the detector that was built
CtorDetectEmotion ==
    /\ ctor.phase \in {"detector", "ready"}
    /\ DetectEmotion

\* EmpathyEngine.set_voice, which delegates to VoiceModulator.set_voice
SetVoice ==
    /\ ctor.phase = "ready"
    /\ sv = <<>>
    /\ \E gender \in Genders, raises \in BOOLEAN :
        /\ raises => engine_type = "pyttsx3"
        /\ LET r == set_voice(engine_type, voices, voice, gender, raises)
           IN  /\ voice' = r.voice
               /\ sv' = [gender |-> gender, result |-> r.result, before |-> voice]
    /\ UNCHANGED <<ctor, voices>>
    /\ UNCHANGED mapVars
    /\ UNCHANGED detVars
    /\ UNCHANGED modVars
    /\ UNCHANGED webVars

\* a generate_speech call on the modulator that was built
CtorGenerateSpeech ==
    /\ ctor.phase = "ready"
    /\ written = <<>>
    /\ GenerateSpeech

CtorNext ==
    \/ NewEmotionDetector
    \/ NewVoiceModulator
    \/ CtorDetectEmotion
    \/ SetVoice
    \/ CtorGenerateSpeech

SpecCtor == CtorInit /\ [][CtorNext]_vars

(***************************************************************************)
(* C12: when the detector is constructed with the model requested and the  *)
(* connectivity probe or the model load fails, construction completes      *)
(* without raising, use_advanced is false afterwards, and a later          *)
(* detect_emotion call uses the lexical strategy.                          *)
(***************************************************************************)
C12_ConstructionDowngrade ==
    (/\ ctor.phase # "new"
     /\ ctor.use_advanced
     /\ (ctor.probe = "fail" \/ ctor.load = "raise"))
    => /\ ctor.phase # "detector_failed"
       /\ ~d_use_advanced
       /\ d_op = "detect_emotion" =>
            /\ d_invoked = <<"basic">>
            /\ d_result = basic_sentiment_analysis(d_polarity, d_subjectivity)

\* the probe succeeded, the load raised, and the later call answered "sad"
\* from the scorer
C12_Witness ==
    /\ ctor.phase = "ready"
    /\ ctor.use_advanced
    /\ ctor.probe = "ok"
    /\ ctor.load = "raise"
    /\ ~d_use_advanced
    /\ d_op = "detect_emotion"
    /\ d_invoked = <<"basic">>
    /\ d_result.emotion = "sad"

(***************************************************************************)
(* C13: constructing the modulator for elevenlabs without the credential   *)
(* raises at construction, before any synthesis call; no elevenlabs        *)
(* invocation is ever made without the credential; constructing the        *)
(* pyttsx3 or gtts modulator never needs the credential.                   *)
(***************************************************************************)
C13_CredentialAtConstruction ==
    /\ ctor.phase \in {"ready", "modulator_failed"} =>
          ((ctor.phase = "modulator_failed")
              <=> (ctor.tts_engine = "elevenlabs" /\ ~ctor.api_key))
    /\ ctor.phase = "modulator_failed" => (op = "init" /\ calls = <<>>)
    /\ \A i \in 1..Len(calls) : calls[i].backend = "elevenlabs" => ctor.api_key

\* elevenlabs requested, no key in the environment: the constructor raised
\* and no call was made
C13_Witness ==
    /\ ctor.phase = "modulator_failed"
    /\ ctor.tts_engine = "elevenlabs"
    /\ ~ctor.api_key
    /\ op = "init"
    /\ calls = <<>>

\* the voice is the one the request asks for
Honored(gender, v) == VoiceGender(v) = lower(gender)

(***************************************************************************)
(* C20: set_voice returns true only when the voice it leaves on the engine *)
(* is of the requested gender; it returns false and changes no voice on    *)
(* gtts and elevenlabs and when no voice is available.                     *)
(***************************************************************************)
C20_TrueIffHonored ==
    sv # <<>> =>
        /\ (engine_type # "pyttsx3" \/ voices = <<>>)
              => (~sv.result /\ voice = sv.before)
        /\ sv.result => (voice >= 0 /\ Honored(sv.gender, voices[voice + 1]))

(***************************************************************************)
(* The web application: app.py keeps one module-level engine; Flask runs   *)
(* the handler of each request on a thread of its own, so the steps of two *)
(* process_text calls interleave.                                          *)
(***************************************************************************)

Requests == {1, 2}

\* app.py line 51: initialize_engine at import built the default engine,
\* whose modulator is on gtts when the local engine failed to start
WebInit ==
    /\ MapIdle
    /\ DetIdle
    /\ ModIdle
    /\ CtorIdle
    /\ \E pyttsx3_init \in {"ok", "raise"} :
        g_engine = [ id |-> 1,
                     engine_type |-> voice_modulator_init("pyttsx3", FALSE,
                                         pyttsx3_init, <<>>).engine_type ]
    /\ constructions = 1
    /\ reqs = [ r \in Requests |->
                  [ pc |-> "idle", tts_engine |-> "pyttsx3", handle |-> 0,
                    status |-> 0 ] ]

WebStep(r, pc, tts_engine, handle, status) ==
    reqs' = [reqs EXCEPT ![r] = [ pc |-> pc, tts_engine |-> tts_engine,
                                  handle |-> handle, status |-> status ]]

WebFrame ==
    /\ UNCHANGED mapVars
    /\ UNCHANGED detVars
    /\ UNCHANGED modVars
    /\ UNCHANGED ctorVars

\* ensure_engine_initialized, lines 52-55, with initialize_engine
EnsureEngineInitialized(r) ==
    /\ reqs[r].pc = "idle"
    /\ IF g_engine.id = 0
          THEN /\ \E pyttsx3_init \in {"ok", "raise"} :
                    g_engine' = [ id |-> constructions + 1,
                                  engine_type |-> voice_modulator_init("pyttsx3",
                                      FALSE, pyttsx3_init, <<>>).engine_type ]
               /\ constructions' = constructions + 1
          ELSE UNCHANGED <<g_engine, constructions>>
    /\ WebStep(r, "form", reqs[r].tts_engine, reqs[r].handle, reqs[r].status)
    /\ WebFrame

\* process_text, lines 67-85: the form fields and the two 400 answers
ReadForm(r) ==
    /\ reqs[r].pc = "form"
    /\ \E text \in BOOLEAN, api_key \in BOOLEAN,
          tts_engine \in {"pyttsx3", "gtts", "elevenlabs"} :
        IF ~text \/ (tts_engine = "elevenlabs" /\ ~api_key)
            THEN WebStep(r, "done", tts_engine, reqs[r].handle, 400)
            ELSE WebStep(r, "check", tts_engine, reqs[r].handle, reqs[r].status)
    /\ UNCHANGED <<g_engine, constructions>>
    /\ WebFrame

\* process_text, lines 89-93: needs_new_engine
CheckNeedsNewEngine(r) ==
    /\ reqs[r].pc = "check"
    /\ LET needs_new_engine == \/ g_engine.id = 0
                                \/ g_engine.engine_type # reqs[r].tts_engine
       IN  WebStep(r, IF needs_new_engine THEN "construct" ELSE "set_voice",
                   reqs[r].tts_engine, reqs[r].handle, reqs[r].status)
    /\ UNCHANGED <<g_engine, constructions>>
    /\ WebFrame

\* process_text, lines 96-118: the key of the form is in the environment by
\* line 100, the new engine is assigned to the module-level name
Reinitialize(r) ==
    /\ reqs[r].pc = "construct"
    /\ \E pyttsx3_init \in {"none", "ok", "raise"} :
        /\ (pyttsx3_init # "none") <=> (reqs[r].tts_engine = "pyttsx3")
        /\ LET m == voice_modulator_init(reqs[r].tts_engine, TRUE, pyttsx3_init, <<>>)
           IN  IF m.raised
                 THEN /\ WebStep(r, "done", reqs[r].tts_engine, reqs[r].handle, 400)
                      /\ UNCHANGED <<g_engine, constructions>>
                 ELSE /\ g_engine' = [ id |-> constructions + 1,
                                       engine_type |-> m.engine_type ]
                      /\ constructions' = constructions + 1
                      /\ WebStep(r, "set_voice", reqs[r].tts_engine,
                                 reqs[r].handle, reqs[r].status)
    /\ WebFrame

\* process_text, line 121: engine.set_voice(voice) on the engine of the moment
WebSetVoice(r) ==
    /\ reqs[r].pc = "set_voice"
    /\ WebStep(r, "process", reqs[r].tts_engine, g_engine.id, reqs[r].status)
    /\ UNCHANGED <<g_engine, constructions>>
    /\ WebFrame

\* process_text, line 129: engine.process(...) starts on the engine of the moment
WebProcessBegin(r) ==
    /\ reqs[r].pc = "process"
    /\ WebStep(r, "in_process", reqs[r].tts_engine, g_engine.id, reqs[r].status)
    /\ UNCHANGED <<g_engine, constructions>>
    /\ WebFrame

\* process_text, lines 129-139 and after: use_advanced is False (line 71), so
\* an exception of process is raised again and answered with 500
WebProcessEnd(r) ==
    /\ reqs[r].pc = "in_process"
    /\ \E outcome \in {"audio", "no audio", "raised"} :
        WebStep(r, "done", reqs[r].tts_engine, reqs[r].handle,
                IF outcome = "audio" THEN 200 ELSE 500)
    /\ UNCHANGED <<g_engine, constructions>>
    /\ WebFrame

WebNext ==
    \E r \in Requests :
        \/ EnsureEngineInitialized(r)
        \/ ReadForm(r)
        \/ CheckNeedsNewEngine(r)
        \/ Reinitialize(r)
        \/ WebSetVoice(r)
        \/ WebProcessBegin(r)
        \/ WebProcessEnd(r)

SpecWeb == WebInit /\ [][WebNext]_vars

(***************************************************************************)
(* C19: the shared engine is initialized at most once: in no interleaving  *)
(* of two requests does the engine constructor run a second time, and the  *)
(* module-level engine is never replaced while a request is using it.      *)
(***************************************************************************)
C19_InitOnce ==
    /\ constructions <= 1
    /\ \A r \in DOMAIN reqs :
          reqs[r].pc \in {"process", "in_process"} => reqs[r].handle = g_engine.id

(***************************************************************************)
(* The normalizer: _clean_text applied to a text, and again to its own     *)
(* output.                                                                 *)
(***************************************************************************)

MaxTokens == 4

\* a word, a blank, "http" alone and a URL
Tokens == { <<"a">>, <<" ">>, <<"h", "t", "t", "p">>,
            <<"h", "t", "t", "p", ":", "x">> }

RECURSIVE Flatten(_)
Flatten(ts) == IF ts = <<>> THEN <<>> ELSE Head(ts) \o Flatten(Tail(ts))

CleanTexts == { Flatten(ts) : ts \in UNION { [1..n -> Tokens] : n \in 0..MaxTokens } }

CleanInit ==
    /\ MapIdle
    /\ ModIdle
    /\ CtorIdle
    /\ WebIdle
    /\ d_text \in CleanTexts
    /\ d_polarity = 0
    /\ d_subjectivity = 0
    /\ d_use_advanced = FALSE
    /\ d_classifier = FALSE
    /\ d_model = NoModel
    /\ d_op = "init"
    /\ d_result = <<>>
    /\ d_invoked = <<>>

\* _clean_text(text)
CleanText ==
    /\ d_op = "init"
    /\ d_op' = "clean_text"
    /\ d_result' = clean_text(d_text)
    /\ UNCHANGED <<d_text, d_polarity, d_subjectivity, d_use_advanced,
                   d_classifier, d_model, d_invoked>>
    /\ UNCHANGED mapVars
    /\ UNCHANGED modVars
    /\ UNCHANGED ctorVars
    /\ UNCHANGED webVars

\* _clean_text applied to what _clean_text returned
CleanTextAgain ==
    /\ d_op = "clean_text"
    /\ d_op' = "clean_text_again"
    /\ d_text' = d_result
    /\ d_result' = clean_text(d_result)
    /\ UNCHANGED <<d_polarity, d_subjectivity, d_use_advanced,
                   d_classifier, d_model, d_invoked>>
    /\ UNCHANGED mapVars
    /\ UNCHANGED modVars
    /\ UNCHANGED ctorVars
    /\ UNCHANGED webVars

CleanNext == CleanText \/ CleanTextAgain

SpecClean == CleanInit /\ [][CleanNext]_vars

(***************************************************************************)
(* C22: _clean_text is idempotent: applied to its own output it returns    *)
(* that output unchanged.                                                  *)
(***************************************************************************)
C22_Idempotent ==
    d_op = "clean_text_again" => d_result = d_text

\* a token that starts with "http" begins at position i of text
UrlTokenAt(text, i) ==
    /\ i + 3 <= Len(text)
    /\ SubSeq(text, i, i + 3) = <<"h", "t", "t", "p">>
    /\ (i = 1 \/ IsSpace(text[i - 1]))

(***************************************************************************)
(* C23: the output of _clean_text has no leading or trailing whitespace,   *)
(* no run of two or more whitespace characters and no token starting with  *)
(* "http"; the empty string yields the empty string.                       *)
(***************************************************************************)
C23_Normalized ==
    d_op = "clean_text" =>
        /\ d_result # <<>> =>
              (~IsSpace(d_result[1]) /\ ~IsSpace(d_result[Len(d_result)]))
        /\ \A i \in 1..(Len(d_result) - 1) :
              ~(IsSpace(d_result[i]) /\ IsSpace(d_result[i + 1]))
        /\ \A i \in 1..Len(d_result) : ~UrlTokenAt(d_result, i)
        /\ d_text = <<>> => d_result = <<>>

(***************************************************************************)
(* C27: when the local engine fails to initialize while a pyttsx3          *)
(* modulator is constructed, construction does not raise, the backend is   *)
(* gtts from then on: every generate_speech call goes to gtts and every    *)
(* set_voice call returns false and changes nothing.                       *)
(***************************************************************************)
C27_LocalInitFailure ==
    (ctor.tts_engine = "pyttsx3" /\ ctor.pyttsx3_init = "raise") =>
        /\ ctor.phase = "ready"
        /\ engine_type = "gtts"
        /\ \A i \in 1..Len(calls) : calls[i].backend = "gtts"
        /\ sv # <<>> => (~sv.result /\ voice = sv.before)

\* after the failed start a call was synthesized by gtts and set_voice
\* answered false although voices are installed
C27_Witness ==
    /\ ctor.phase = "ready"
    /\ ctor.tts_engine = "pyttsx3"
    /\ ctor.pyttsx3_init = "raise"
    /\ engine_type = "gtts"
    /\ voices # <<>>
    /\ Len(calls) = 1
    /\ calls[1].backend = "gtts"
    /\ sv # <<>>
    /\ ~sv.result

====
